---- MODULE Spec2Model ----
(***************************************************************************)
(* Webmention renderer of hugo-PaperMod-IndieWeb.                          *)
(*                                                                         *)
(* The repository holds two revisions of the renderer: unnamed/part_000    *)
(* and assets/js/webmention-renderer.js.  The variable `source` says which *)
(* of the two is running; where they differ the model branches on it.      *)
(*                                                                         *)
(* A JavaScript string is a sequence of one-character strings.  An         *)
(* optional value (a property that may be undefined) is <<>> when absent   *)
(* and <<v>> when present.  An HTML string handed to the sanitizer is a    *)
(* sequence of tokens (start tag, end tag, character data), the unit the   *)
(* HTML tokenizer splits it into.                                          *)
(***************************************************************************)
EXTENDS Integers, Sequences, FiniteSets, TLC

VARIABLES
    source,                  \* which revision of the renderer runs
    observing,               \* the IntersectionObserver is connected
    notified,                \* the observer has delivered its first entry
    previousIsIntersecting,  \* isIntersecting of the last entry queued
    calls,                   \* one position per fetchMentions() activation
    container,               \* container.innerHTML
    mentions,                \* argument of the last renderMentions activation
    locals,                  \* likes / mentionsList / uniqueLikes of that activation
    lastOutcome,             \* how the last fetchMentions activation to settle ended
    uncaught,                \* an exception left fetchMentions
    startedAfterFailure,     \* fetchMentions activations begun after a failure
    fragment,                \* argument of sanitizeContent
    sanitized                \* results of sanitizeContent, applied again to its own result

vars == <<source, observing, notified, previousIsIntersecting, calls, container,
          mentions, locals, lastOutcome, uncaught, startedAfterFailure,
          fragment, sanitized>>

-----------------------------------------------------------------------------
(* Bounds *)

MaxTokens == 3
MaxMentions == 3
MaxEntries == 3

-----------------------------------------------------------------------------
(* Strings *)

Part000 == "unnamed/part_000"
Assets == "assets/js/webmention-renderer.js"
Sources == {Part000, Assets}

None == <<>>
Some(v) == <<v>>

\* JavaScript truthiness of an optional string: undefined and "" are falsy
Truthy(o) == o # None /\ o[1] # <<>>

\* a || b on optional strings
Or(a, b) == IF Truthy(a) THEN a ELSE b

UpperChars == <<"A","B","C","D","E","F","G","H","I","J","K","L","M",
                "N","O","P","Q","R","S","T","U","V","W","X","Y","Z">>
LowerChars == <<"a","b","c","d","e","f","g","h","i","j","k","l","m",
                "n","o","p","q","r","s","t","u","v","w","x","y","z">>

toLowerCaseChar(c) ==
    IF \E i \in 1..Len(UpperChars) : UpperChars[i] = c
    THEN LowerChars[CHOOSE i \in 1..Len(UpperChars) : UpperChars[i] = c]
    ELSE c

toUpperCaseChar(c) ==
    IF \E i \in 1..Len(LowerChars) : LowerChars[i] = c
    THEN UpperChars[CHOOSE i \in 1..Len(LowerChars) : LowerChars[i] = c]
    ELSE c

toLowerCase(s) == [i \in 1..Len(s) |-> toLowerCaseChar(s[i])]

startsWith(s, p) == Len(s) >= Len(p) /\ SubSeq(s, 1, Len(p)) = p

RECURSIVE Concat(_)
Concat(ss) == IF ss = <<>> THEN <<>> ELSE Head(ss) \o Concat(Tail(ss))

-----------------------------------------------------------------------------
(* sanitizeContent: the HTML parser behind tempDiv.innerHTML = htmlString *)

script == <<"s","c","r","i","p","t">>
style == <<"s","t","y","l","e">>
iframe == <<"i","f","r","a","m","e">>
object == <<"o","b","j","e","c","t">>
embed == <<"e","m","b","e","d">>
form == <<"f","o","r","m">>
link == <<"l","i","n","k">>
meta == <<"m","e","t","a">>
template == <<"t","e","m","p","l","a","t","e">>
plaintext == <<"p","l","a","i","n","t","e","x","t">>
q == <<"q">>
rootName == <<"#","r","o","o","t">>

StartTag(name, attrs) == [t |-> "start", name |-> name, attrs |-> attrs]
EndTag(name) == [t |-> "end", name |-> name, attrs |-> <<>>]
Characters(data) == [t |-> "chars", name |-> data, attrs |-> <<>>]

Element(name, attrs, kids, content) ==
    [type |-> "element", name |-> name, attrs |-> attrs, kids |-> kids,
     content |-> content, data |-> <<>>]
TextNode(data) ==
    [type |-> "text", name |-> <<>>, attrs |-> <<>>, kids |-> <<>>,
     content |-> <<>>, data |-> data]

\* elements whose content the tokenizer reads as raw text up to their end tag
RawTextElements == {script, style, iframe}
\* elements with no content and no end tag
VoidElements == {link, meta, embed}
\* the "special" elements of the parser: an end tag does not reach past them
SpecialElements == {script, style, iframe, object, embed, form, link, meta,
                    template, plaintext, rootName}

\* the tokenizer lower-cases attribute names and drops a repeated attribute
RECURSIVE ParseAttrs(_, _)
ParseAttrs(attrs, seen) ==
    IF attrs = <<>> THEN <<>>
    ELSE LET n == toLowerCase(Head(attrs))
         IN IF n \in seen THEN ParseAttrs(Tail(attrs), seen)
            ELSE <<n>> \o ParseAttrs(Tail(attrs), seen \cup {n})

Frame(name, attrs) == [name |-> name, attrs |-> attrs, kids |-> <<>>]

\* character data is appended to the text node that ends the current node, if any
AppendText(kids, tok) ==
    IF kids # <<>> /\ kids[Len(kids)].type = "text"
    THEN [kids EXCEPT ![Len(kids)].data = @ \o <<tok>>]
    ELSE Append(kids, TextNode(<<tok>>))

\* pop the current node off the stack of open elements into its parent; the
\* children of a template element go to its template contents
PopFrame(stack) ==
    LET n == Len(stack)
        f == stack[n]
        node == IF f.name = template
                THEN Element(f.name, f.attrs, <<>>, f.kids)
                ELSE Element(f.name, f.attrs, f.kids, <<>>)
    IN [SubSeq(stack, 1, n - 1) EXCEPT ![n - 1].kids = Append(@, node)]

RECURSIVE PopTo(_, _)
PopTo(stack, k) == IF Len(stack) < k THEN stack ELSE PopTo(PopFrame(stack), k)

\* the frame an end tag closes, 0 when the end tag is ignored
RECURSIVE EndTagTarget(_, _, _)
EndTagTarget(stack, name, i) ==
    IF i < 2 THEN 0
    ELSE IF stack[i].name = name THEN i
    ELSE IF name # template /\ stack[i].name \in SpecialElements THEN 0
    ELSE EndTagTarget(stack, name, i - 1)

RECURSIVE ParseFrom(_, _, _, _)
ParseFrom(tokens, i, stack, mode) ==
    IF i > Len(tokens) THEN PopTo(stack, 2)[1].kids
    ELSE
      LET tok == tokens[i]
          name == toLowerCase(tok.name)
          top == Len(stack)
          asText == [stack EXCEPT ![top].kids = AppendText(@, tok)]
      IN CASE mode = "plaintext" -> ParseFrom(tokens, i + 1, asText, mode)
           [] mode = "rawtext" ->
                IF tok.t = "end" /\ name = stack[top].name
                THEN ParseFrom(tokens, i + 1, PopFrame(stack), "data")
                ELSE ParseFrom(tokens, i + 1, asText, mode)
           [] mode = "data" /\ tok.t = "chars" ->
                ParseFrom(tokens, i + 1, asText, mode)
           [] mode = "data" /\ tok.t = "start" ->
                LET attrs == ParseAttrs(tok.attrs, {})
                IN IF name \in VoidElements
                   THEN ParseFrom(tokens, i + 1,
                          [stack EXCEPT ![top].kids =
                              Append(@, Element(name, attrs, <<>>, <<>>))], mode)
                   ELSE ParseFrom(tokens, i + 1, Append(stack, Frame(name, attrs)),
                          IF name \in RawTextElements THEN "rawtext"
                          ELSE IF name = plaintext THEN "plaintext" ELSE "data")
           [] mode = "data" /\ tok.t = "end" ->
                LET k == EndTagTarget(stack, name, top)
                IN ParseFrom(tokens, i + 1,
                             IF k = 0 THEN stack ELSE PopTo(stack, k), mode)

\* tempDiv.innerHTML = htmlString : the children of tempDiv
Parse(htmlString) == ParseFrom(htmlString, 1, <<Frame(rootName, <<>>)>>, "data")

-----------------------------------------------------------------------------
(* sanitizeContent: removal, attribute stripping, serialization *)

forbiddenTags == <<script, style, iframe, object, embed, form, link, meta>>

\* tempDiv.querySelectorAll(tag).forEach(el => el.remove()): the selector
\* matches descendants and does not look inside template contents
RECURSIVE RemoveTag(_, _)
RemoveTag(kids, tag) ==
    IF kids = <<>> THEN <<>>
    ELSE LET n == Head(kids)
         IN IF n.type = "element" /\ n.name = tag
            THEN RemoveTag(Tail(kids), tag)
            ELSE <<[n EXCEPT !.kids = RemoveTag(@, tag)]>> \o RemoveTag(Tail(kids), tag)

RECURSIVE RemoveForbidden(_, _)
RemoveForbidden(kids, tags) ==
    IF tags = <<>> THEN kids
    ELSE RemoveForbidden(RemoveTag(kids, Head(tags)), Tail(tags))

\* for (let i = attrs.length - 1; i >= 0; i--) ... el.removeAttribute(name)
RECURSIVE StripLoop(_, _)
StripLoop(attrs, i) ==
    IF i < 1 THEN attrs
    ELSE LET name == attrs[i]
         IN IF startsWith(name, <<"o","n">>) \/ name = style
            THEN StripLoop(SelectSeq(attrs, LAMBDA a : a # name), i - 1)
            ELSE StripLoop(attrs, i - 1)

\* tempDiv.querySelectorAll("*").forEach(...)
RECURSIVE StripAttributes(_)
StripAttributes(kids) ==
    IF kids = <<>> THEN <<>>
    ELSE LET n == Head(kids)
         IN <<IF n.type = "element"
              THEN [n EXCEPT !.attrs = StripLoop(@, Len(@)),
                             !.kids = StripAttributes(@)]
              ELSE n>> \o StripAttributes(Tail(kids))

\* tempDiv.innerHTML : a template element serializes its template contents, a
\* void element has no end tag, the text of a raw-text element is written as is
RECURSIVE Serialize(_)
Serialize(kids) ==
    IF kids = <<>> THEN <<>>
    ELSE LET n == Head(kids)
         IN (IF n.type = "text" THEN n.data
             ELSE <<StartTag(n.name, n.attrs)>>
                  \o (IF n.name \in VoidElements THEN <<>>
                      ELSE Serialize(IF n.name = template THEN n.content ELSE n.kids)
                           \o <<EndTag(n.name)>>))
            \o Serialize(Tail(kids))

sanitizeContent(htmlString) ==
    Serialize(StripAttributes(RemoveForbidden(Parse(htmlString), forbiddenTags)))

\* every element of a tree, template contents included
RECURSIVE Elements(_)
Elements(kids) ==
    IF kids = <<>> THEN {}
    ELSE LET n == Head(kids)
         IN (IF n.type = "element"
             THEN {[name |-> n.name, attrs |-> n.attrs]}
                  \cup Elements(n.kids) \cup Elements(n.content)
             ELSE {})
            \cup Elements(Tail(kids))

-----------------------------------------------------------------------------
(* escapeHtml *)

RECURSIVE replaceAll(_, _, _)
replaceAll(s, c, rep) ==
    IF s = <<>> THEN <<>>
    ELSE (IF Head(s) = c THEN rep ELSE <<Head(s)>>) \o replaceAll(Tail(s), c, rep)

amp == <<"&","a","m","p",";">>
lt == <<"&","l","t",";">>
gt == <<"&","g","t",";">>
quot == <<"&","q","u","o","t",";">>
apos == <<"&","#","0","3","9",";">>

\* (unsafe || "").replace(/&/g, ..).replace(/</g, ..).replace(/>/g, ..)
\*               .replace(/"/g, ..).replace(/'/g, ..)
escapeHtml(unsafe) ==
    LET s0 == IF Truthy(unsafe) THEN unsafe[1] ELSE <<>>
        s1 == replaceAll(s0, "&", amp)
        s2 == replaceAll(s1, "<", lt)
        s3 == replaceAll(s2, ">", gt)
        s4 == replaceAll(s3, "\"", quot)
    IN replaceAll(s4, "'", apos)

-----------------------------------------------------------------------------
(* Records of the webmention.io response *)

\* the value that stands for a TypeError thrown by a property read of undefined
TypeError == <<<<"T","y","p","e","E","r","r","o","r">>, <<"!">>>>

\* o.f
Get(o, f) == IF o = None THEN TypeError ELSE o[1][f]

\* o.f where the code has o?.f
OptGetUnguarded(o, f) == Get(o, f)

\* o?.f
OptGet(o, f) == IF o = None THEN None ELSE Get(o, f)

Unknown == <<"U","n","k","n","o","w","n">>
likeOf == <<"l","i","k","e","-","o","f">>
repostOf == <<"r","e","p","o","s","t","-","o","f">>
inReplyTo == <<"i","n","-","r","e","p","l","y","-","t","o">>
mentionOf == <<"m","e","n","t","i","o","n","-","o","f">>
liked == <<"l","i","k","e","d">>
reposted == <<"r","e","p","o","s","t","e","d">>
replied == <<"r","e","p","l","i","e","d">>
mentioned == <<"m","e","n","t","i","o","n","e","d">>
undefined == <<"u","n","d","e","f","i","n","e","d">>
InvalidDate == <<"I","n","v","a","l","i","d"," ","D","a","t","e">>

Author(name, photo, url, uid) ==
    [name |-> name, photo |-> photo, url |-> url, uid |-> uid]
Content(html, text) == [html |-> html, text |-> text]
Mention(author, url, published, content, wmProperty) ==
    [author |-> author, url |-> url, published |-> published,
     content |-> content, wm_property |-> wmProperty]

\* the characters of a token, as the token is written in an HTML string
TokenChars(tok) ==
    CASE tok.t = "chars" -> tok.name
      [] tok.t = "end" -> <<"<","/">> \o tok.name \o <<">">>
      [] tok.t = "start" ->
           <<"<">> \o tok.name
           \o Concat([i \in 1..Len(tok.attrs) |-> <<" ">> \o tok.attrs[i]])
           \o <<">">>

HtmlChars(tokens) == Concat([i \in 1..Len(tokens) |-> TokenChars(tokens[i])])

\* JSON.stringify of a string
JsonString(s) ==
    <<"\"">> \o replaceAll(replaceAll(s, "\\", <<"\\","\\">>), "\"", <<"\\","\"">>)
    \o <<"\"">>

\* the members of an object that are present, joined by commas
RECURSIVE JsonMembers(_)
JsonMembers(ms) ==
    IF ms = <<>> THEN <<>>
    ELSE IF Head(ms)[2] = None THEN JsonMembers(Tail(ms))
    ELSE LET rest == JsonMembers(Tail(ms))
         IN JsonString(Head(ms)[1]) \o <<":">> \o Head(ms)[2][1]
            \o (IF rest = <<>> THEN <<>> ELSE <<",">> \o rest)

JsonObject(ms) == <<"{">> \o JsonMembers(ms) \o <<"}">>

JsonOpt(o) == IF o = None THEN None ELSE Some(JsonString(o[1]))
JsonOptHtml(o) == IF o = None THEN None ELSE Some(JsonString(HtmlChars(o[1])))

\* JSON.stringify(l)
JSONstringify(l) ==
    JsonObject(<<
      <<<<"a","u","t","h","o","r">>,
        IF l.author = None THEN None
        ELSE Some(JsonObject(<<
                <<<<"n","a","m","e">>, JsonOpt(l.author[1].name)>>,
                <<<<"p","h","o","t","o">>, JsonOpt(l.author[1].photo)>>,
                <<<<"u","r","l">>, JsonOpt(l.author[1].url)>>,
                <<<<"u","i","d">>, JsonOpt(l.author[1].uid)>> >>))>>,
      <<<<"u","r","l">>, JsonOpt(l.url)>>,
      <<<<"p","u","b","l","i","s","h","e","d">>, JsonOpt(l.published)>>,
      <<<<"c","o","n","t","e","n","t">>,
        IF l.content = None THEN None
        ELSE Some(JsonObject(<<
                <<<<"h","t","m","l">>, JsonOptHtml(l.content[1].html)>>,
                <<<<"t","e","x","t">>, JsonOptHtml(l.content[1].text)>> >>))>>,
      <<<<"w","m","-","p","r","o","p","e","r","t","y">>, JsonOpt(l.wm_property)>> >>)

-----------------------------------------------------------------------------
(* renderMentions *)

\* The markup is a sequence of pieces: a chunk of a template literal (lit), or
\* a value embedded in it: its text, the record it is of and where it came from
Lit(chunk) == [src |-> "lit", of |-> 0, lit |-> chunk, text |-> <<>>, html |-> <<>>]
Val(src, of, text) == [src |-> src, of |-> of, lit |-> "", text |-> text, html |-> <<>>]
Markup(of, tokens) == [src |-> "content", of |-> of, lit |-> "", text |-> <<>>, html |-> tokens]

Loading == <<Lit("<p>Loading interactions...</p>")>>
CouldNotLoad == <<Lit("<p>Could not load interaction data.</p>")>>
Empty == <<Lit("<p></p>")>>

\* the partition without its final else branch
BucketNoElse(wmType) ==
    IF wmType = Some(likeOf) \/ wmType = Some(repostOf) THEN "likes"
    ELSE IF wmType = Some(inReplyTo) \/ wmType = Some(mentionOf) THEN "mentionsList"
    ELSE "neither"

\* if (wmType === "like-of" || wmType === "repost-of") likes
\* else if (wmType === "in-reply-to" || wmType === "mention-of") mentionsList
\* else mentionsList
Bucket(wmType) ==
    IF wmType = Some(likeOf) \/ wmType = Some(repostOf) THEN "likes"
    ELSE IF wmType = Some(inReplyTo) \/ wmType = Some(mentionOf) THEN "mentionsList"
    ELSE "mentionsList"

\* mentions.forEach((m) => { ... likes.push(m) ... mentionsList.push(m) ... }):
\* the two lists hold the records by their position in mentions
Partition(ms) ==
    LET idx == [i \in 1..Len(ms) |-> i]
    IN [likes |-> SelectSeq(idx, LAMBDA i : Bucket(ms[i].wm_property) = "likes"),
        mentionsList |->
            SelectSeq(idx, LAMBDA i : Bucket(ms[i].wm_property) = "mentionsList")]

\* the key without author.uid
DedupKeyNoUid(l) ==
    LET authorUrl == Or(Or(IF l.author = None THEN None
                           ELSE Or(Get(l.author, "url"), Get(l.author, "name")),
                           l.url),
                        Some(<<>>))
        key == Or(Or(authorUrl,
                     IF l.author = None THEN None ELSE Get(l.author, "name")),
                  Some(JSONstringify(l)))
    IN key[1]

\* the key of a like in the seen set
DedupKey(l) ==
    LET authorUrl == Or(Or(IF l.author = None THEN None
                           ELSE Or(Or(Get(l.author, "url"), Get(l.author, "uid")),
                                   Get(l.author, "name")),
                           l.url),
                        Some(<<>>))
        key == Or(Or(authorUrl,
                     IF l.author = None THEN None ELSE Get(l.author, "name")),
                  Some(JSONstringify(l)))
    IN key[1]

\* the loop without seen.add(key)
RECURSIVE DedupLoopNoAdd(_, _, _, _)
DedupLoopNoAdd(ms, likes, seen, uniqueLikes) ==
    IF likes = <<>> THEN uniqueLikes
    ELSE DedupLoopNoAdd(ms, Tail(likes), seen, Append(uniqueLikes, Head(likes)))

\* likes.forEach((l) => { ... if (!seen.has(key)) { seen.add(key); uniqueLikes.push(l) } })
RECURSIVE DedupLoop(_, _, _, _)
DedupLoop(ms, likes, seen, uniqueLikes) ==
    IF likes = <<>> THEN uniqueLikes
    ELSE LET key == DedupKey(ms[Head(likes)])
         IN IF key \notin seen
            THEN DedupLoop(ms, Tail(likes), seen \cup {key}, Append(uniqueLikes, Head(likes)))
            ELSE DedupLoop(ms, Tail(likes), seen, uniqueLikes)

\* new Date(s).toLocaleDateString(): the time value is NaN unless s is a date
\* string, here a four-digit year; a NaN date formats as "Invalid Date"
Digits == {"0","1","2","3","4","5","6","7","8","9"}
IsDateString(s) == Len(s) = 4 /\ \A i \in 1..Len(s) : s[i] \in Digits
toLocaleDateString(s) ==
    IF IsDateString(s) THEN <<"1","/","1","/">> \o s ELSE InvalidDate

\* m.published ? new Date(m.published).toLocaleDateString() : ""
Published(m) == IF Truthy(m.published) THEN toLocaleDateString(m.published[1]) ELSE <<>>

\* let verb = "mentioned"; if (wmType === ...) verb = ...
Verb(wmType) ==
    IF wmType = Some(inReplyTo) THEN replied
    ELSE IF wmType = Some(repostOf) THEN reposted
    ELSE IF wmType = Some(likeOf) THEN liked
    ELSE mentioned

Emoji(wmType) ==
    IF wmType = Some(inReplyTo) THEN "emoji reply"
    ELSE IF wmType = Some(repostOf) THEN "emoji repeat"
    ELSE IF wmType = Some(likeOf) THEN "emoji heart"
    ELSE "emoji speech"

\* `${v}` of a value that may be undefined
TemplateString(o) == IF o = None THEN undefined ELSE o[1]

\* (authorName || "U").charAt(0).toUpperCase()
Initial(authorName) ==
    LET s == IF authorName = <<>> THEN <<"U">> ELSE authorName
    IN <<toUpperCaseChar(s[1])>>

\* the values both item templates read off a record
AuthorNameOf(m) == Or(OptGet(m.author, "name"), Some(Unknown))
AuthorPhotoOf(m) == Or(OptGet(m.author, "photo"), Some(<<>>))
AuthorUrlOf(m) == Or(OptGet(m.author, "url"), Some(<<>>))
ContentOf(m) == Or(Or(OptGet(m.content, "html"), OptGet(m.content, "text")), Some(<<>>))

\* a property read threw while the item of m was built
ItemThrows(m) ==
    TypeError \in {OptGet(m.author, "name"), OptGet(m.author, "photo"),
                   OptGet(m.author, "url"), OptGet(m.content, "html"),
                   OptGet(m.content, "text")}

\* uniqueLikes.forEach((m) => { ... html += `<li class="webmention-like-item ...` })
LikeItem(src, ms, i) ==
    LET m == ms[i]
        authorName == escapeHtml(AuthorNameOf(m))
        authorPhoto == AuthorPhotoOf(m)
        authorUrl == AuthorUrlOf(m)
        wmType == Or(m.wm_property, Some(<<>>))
        avatarHtml ==
            IF Truthy(authorPhoto)
            THEN <<Lit("<img src=\""), Val("author.photo", i, escapeHtml(authorPhoto)),
                   Lit("\" alt=\""), Val("author.name", i, authorName),
                   Lit("\" class=\"webmention-avatar\" loading=\"lazy\">")>>
            ELSE <<Lit("<span class=\"webmention-avatar webmention-avatar--placeholder\" aria-hidden=\"true\">"),
                   Val("initial", i, escapeHtml(Some(Initial(authorName)))),
                   Lit("</span>")>>
        interactionUrl == IF src = Part000 THEN Or(m.url, authorUrl) ELSE authorUrl
        urlSrc == IF src = Part000 /\ Truthy(m.url) THEN "url" ELSE "author.url"
        profileLinkStart ==
            IF Truthy(interactionUrl)
            THEN <<Lit("<a href=\""), Val(urlSrc, i, escapeHtml(interactionUrl)),
                   Lit("\" class=\"webmention-like-link\" target=\"_blank\" rel=\"nofollow noopener\" title=\""),
                   Val("author.name", i, authorName), Lit("\">")>>
            ELSE <<Lit("<span class=\"webmention-like-link\" title=\""),
                   Val("author.name", i, authorName), Lit("\">")>>
        profileLinkEnd == IF Truthy(interactionUrl) THEN <<Lit("</a>")>> ELSE <<Lit("</span>")>>
    IN <<Lit("<li class=\"webmention-like-item "), Val("wm-property", i, wmType[1]), Lit("\">")>>
       \o profileLinkStart \o avatarHtml
       \o <<Lit("<span class=\"sr-only\">"), Val("author.name", i, authorName), Lit(" "),
            Val("verb", i, IF wmType = Some(repostOf) THEN reposted ELSE liked),
            Lit(" this</span>")>>
       \o profileLinkEnd \o <<Lit("</li>")>>

\* `${(wmType === "in-reply-to" || wmType === "mention-of") && content ? ... : ``}`
ContentBox(m, i) ==
    IF m.wm_property \in {Some(inReplyTo), Some(mentionOf)} /\ Truthy(ContentOf(m))
    THEN <<Lit("<div class=\"webmention-content\">"),
           Markup(i, sanitizeContent(ContentOf(m)[1])), Lit("</div>")>>
    ELSE <<>>

\* mentionsList.forEach((m) => { ... html += `<li class="webmention-item ...` }),
\* unnamed/part_000
MentionItemPart000(ms, i) ==
    LET m == ms[i]
        authorName == escapeHtml(AuthorNameOf(m))
        authorPhoto == AuthorPhotoOf(m)
        authorUrl == AuthorUrlOf(m)
        wmType == m.wm_property
        interactionUrl == Or(m.url, authorUrl)
        urlSrc == IF Truthy(m.url) THEN "url" ELSE "author.url"
        icon ==
            IF Truthy(authorPhoto)
            THEN <<Lit("<img src=\""), Val("author.photo", i, escapeHtml(authorPhoto)),
                   Lit("\" alt=\""), Val("author.name", i, authorName),
                   Lit("\" class=\"webmention-icon-img\" width=\"48\" height=\"48\" loading=\"lazy\">")>>
            ELSE <<Lit("<div class=\"webmention-icon-emoji\" aria-hidden=\"true\">"),
                   Lit(Emoji(wmType)), Lit("</div>")>>
        iconHtml ==
            IF Truthy(interactionUrl)
            THEN <<Lit("<a href=\""), Val(urlSrc, i, escapeHtml(interactionUrl)),
                   Lit("\" target=\"_blank\" rel=\"nofollow noopener\">")>>
                 \o icon \o <<Lit("</a>")>>
            ELSE icon
        author ==
            IF Truthy(interactionUrl)
            THEN <<Lit("<a href=\""), Val(urlSrc, i, escapeHtml(interactionUrl)),
                   Lit("\" target=\"_blank\" rel=\"nofollow noopener\">"),
                   Val("author.name", i, authorName), Lit("</a>")>>
            ELSE <<Val("author.name", i, authorName)>>
    IN <<Lit("<li class=\"webmention-item "),
         Val("wm-property", i, escapeHtml(Or(wmType, Some(<<>>)))), Lit("\">"),
         Lit("<div class=\"webmention-row\"><div class=\"webmention-icon-column\">")>>
       \o iconHtml
       \o <<Lit("</div><div class=\"webmention-body-column\"><div class=\"webmention-meta-top\">"),
            Lit("<span class=\"webmention-author\">")>>
       \o author
       \o <<Lit("</span><span class=\"webmention-verb\">"), Val("verb", i, Verb(wmType)),
            Lit("</span><span class=\"webmention-date\">"), Val("published", i, Published(m)),
            Lit("</span></div>")>>
       \o ContentBox(m, i)
       \o <<Lit("</div></div></li>")>>

\* the same, assets/js/webmention-renderer.js
MentionItemAssets(ms, i) ==
    LET m == ms[i]
        authorName == escapeHtml(AuthorNameOf(m))
        authorPhoto == AuthorPhotoOf(m)
        authorUrl == AuthorUrlOf(m)
        wmType == m.wm_property
        avatar ==
            IF Truthy(authorPhoto)
            THEN <<Lit("<img src=\""), Val("author.photo", i, escapeHtml(authorPhoto)),
                   Lit("\" alt=\""), Val("author.name", i, authorName),
                   Lit("\" class=\"webmention-avatar\" loading=\"lazy\">")>>
            ELSE <<Lit("<span class=\"webmention-avatar webmention-avatar--placeholder\">"),
                   Val("initial", i, escapeHtml(Some(Initial(authorName)))),
                   Lit("</span>")>>
        author ==
            IF Truthy(authorUrl)
            THEN <<Lit("<a href=\""), Val("author.url", i, escapeHtml(authorUrl)),
                   Lit("\" target=\"_blank\" rel=\"nofollow noopener\">"),
                   Val("author.name", i, authorName), Lit("</a>")>>
            ELSE <<Val("author.name", i, authorName)>>
    IN <<Lit("<li class=\"webmention-item "),
         Val("wm-property", i, TemplateString(wmType)), Lit("\">"),
         Lit("<div class=\"webmention-meta\">")>>
       \o avatar
       \o <<Lit("<span class=\"webmention-author\">")>>
       \o author
       \o <<Lit("</span><span class=\"webmention-verb\">"), Val("verb", i, Verb(wmType)),
            Lit("</span><span class=\"webmention-date\">"), Val("published", i, Published(m)),
            Lit("</span><a href=\""), Val("url", i, escapeHtml(m.url)),
            Lit("\" target=\"_blank\" rel=\"nofollow noopener\" class=\"webmention-source-link\" title=\"Original Source\">link</a></div>")>>
       \o ContentBox(m, i)
       \o <<Lit("</li>")>>

MentionItem(src, ms, i) ==
    IF src = Part000 THEN MentionItemPart000(ms, i) ELSE MentionItemAssets(ms, i)

\* renderMentions(mentions): whether it threw, and otherwise the value it gives
\* container.innerHTML and its likes, mentionsList and uniqueLikes
renderMentions(src, ms) ==
    IF Len(ms) = 0
    THEN [threw |-> FALSE, html |-> Empty,
          locals |-> [likes |-> <<>>, mentionsList |-> <<>>, uniqueLikes |-> <<>>]]
    ELSE
      LET p == Partition(ms)
          uniqueLikes == DedupLoop(ms, p.likes, {}, <<>>)
          likesHtml ==
              IF Len(p.likes) > 0
              THEN <<Lit("<div class=\"webmentions-likes\" aria-live=\"polite\"><h4 class=\"webmentions-heading\">Likes</h4><ul class=\"webmention-likes-list\" role=\"list\">")>>
                   \o Concat([k \in 1..Len(uniqueLikes) |-> LikeItem(src, ms, uniqueLikes[k])])
                   \o <<Lit("</ul></div>")>>
              ELSE <<>>
          mentionsHtml ==
              IF Len(p.mentionsList) > 0
              THEN <<Lit("<div class=\"webmentions-mentions\" aria-live=\"polite\"><h4 class=\"webmentions-heading\">Mentions</h4><ul class=\"webmentions-list\">")>>
                   \o Concat([k \in 1..Len(p.mentionsList) |-> MentionItem(src, ms, p.mentionsList[k])])
                   \o <<Lit("</ul></div>")>>
              ELSE <<>>
          html == likesHtml \o mentionsHtml
          threw == \/ \E k \in 1..Len(uniqueLikes) : ItemThrows(ms[uniqueLikes[k]])
                   \/ \E k \in 1..Len(p.mentionsList) : ItemThrows(ms[p.mentionsList[k]])
          lcls == [likes |-> p.likes, mentionsList |-> p.mentionsList,
                   uniqueLikes |-> uniqueLikes]
      IN IF threw THEN [threw |-> TRUE, html |-> <<>>, locals |-> lcls]
         ELSE [threw |-> FALSE,
               html |-> IF src = Assets /\ html = <<>> THEN Empty ELSE html,
               locals |-> lcls]

-----------------------------------------------------------------------------
(* Inputs *)

\* sequences over S of length lo..hi
Seqs(S, lo, hi) == UNION {[1..n -> S] : n \in lo..hi}

onAttr == <<"O","N","x">>
idAttr == <<"i","d">>
TokenAlphabet ==
    {StartTag(q, <<>>), StartTag(q, <<onAttr, style, idAttr>>), EndTag(q),
     StartTag(<<"S","C","R","I","P","T">>, <<>>), EndTag(script),
     StartTag(object, <<>>), EndTag(object), StartTag(link, <<>>),
     StartTag(template, <<>>), EndTag(template), StartTag(plaintext, <<>>),
     Characters(<<"h","i">>)}
Fragments == Seqs(TokenAlphabet, 0, MaxTokens)

Ann == <<"A","n","n">>
markupName == <<"<","b",">","&">>
profile == <<"h",":","a">>
quoteUrl == <<"\"",">">>
permalink == <<"h",":","s">>
photo == <<"p",".","p","n","g">>
year == <<"2","0","2","4">>
soon == <<"s","o","o","n">>
bookmarkOf == <<"b","o","o","k","m","a","r","k","-","o","f">>
markupTag == <<"\"",">","<","x">>
hello == <<StartTag(script, <<>>), Characters(<<"e","v","i","l">>), EndTag(script),
           StartTag(q, <<>>), Characters(<<"h","i">>), EndTag(q)>>
plain == <<Characters(<<"h","i">>)>>

Opt(S) == {None} \cup {Some(v) : v \in S}

\* records with every subset of the fields the renderer reads absent
MentionShapes ==
    {Mention(a, u, p, c, w) :
        a \in {None} \cup {Some(Author(n, ph, au, None)) :
                              n \in Opt({Ann, markupName}), ph \in Opt({photo}),
                              au \in Opt({profile})},
        u \in Opt({permalink}),
        p \in Opt({year, soon}),
        c \in {None, Some(Content(None, None)), Some(Content(Some(hello), None)),
               Some(Content(None, Some(plain)))},
        w \in Opt({likeOf, repostOf, inReplyTo, mentionOf, bookmarkOf, markupTag})}

MentionSamples ==
    {Mention(Some(Author(Some(Ann), None, Some(profile), None)), None, None, None, Some(likeOf)),
     Mention(Some(Author(Some(Ann), None, Some(profile), None)), Some(permalink), None, None, Some(repostOf)),
     Mention(None, None, None, None, None),
     Mention(Some(Author(Some(markupName), Some(photo), Some(quoteUrl), None)), None,
             Some(soon), Some(Content(Some(hello), None)), Some(inReplyTo)),
     Mention(Some(Author(None, None, None, None)), Some(permalink), Some(year),
             Some(Content(None, Some(plain))), Some(mentionOf)),
     Mention(None, Some(quoteUrl), Some(year), None, Some(markupTag)),
     Mention(Some(Author(Some(Ann), None, None, None)), None, Some(soon), None, Some(bookmarkOf))}

RenderResponses ==
    {None, Some(<<>>)} \cup {Some(<<m>>) : m \in MentionShapes}
    \cup {Some(ms) : ms \in Seqs(MentionSamples, 2, MaxMentions)}

a == <<"a">>
b == <<"b">>

\* likes and reposts with every combination of the values a key is taken from
LikeShapes ==
    {Mention(au, u, None, None, Some(w)) :
        au \in {None} \cup {Some(Author(n, None, url, uid)) :
                               n \in Opt({a}), url \in Opt({<<>>, a, b}), uid \in Opt({a})},
        u \in Opt({a, b}),
        w \in {likeOf, repostOf}}

LikeSamples ==
    {Mention(Some(Author(Some(Ann), None, Some(profile), None)), None, None, None, Some(likeOf)),
     Mention(Some(Author(Some(a), None, Some(profile), None)), Some(permalink), None, None, Some(repostOf)),
     Mention(Some(Author(Some(Ann), None, None, None)), None, None, None, Some(likeOf)),
     Mention(Some(Author(None, None, None, Some(a))), None, None, None, Some(likeOf)),
     Mention(None, Some(permalink), None, None, Some(likeOf)),
     Mention(None, Some(permalink), None, None, Some(repostOf)),
     Mention(None, None, None, None, Some(likeOf)),
     Mention(None, None, Some(year), None, Some(inReplyTo))}

LikeResponses ==
    {Some(<<l>>) : l \in LikeShapes}
    \cup {Some(<<l1, l2>>) : l1 \in LikeShapes, l2 \in LikeShapes}
    \cup {Some(ms) : ms \in Seqs(LikeSamples, 3, MaxMentions)}

PageResponses ==
    {None, Some(<<>>)} \cup {Some(ms) : ms \in Seqs(MentionSamples, 1, 1)}

\* the entries one callback can be handed: an entry is queued when
\* isIntersecting changes, and the first one whatever it is
Alternates(es, first) ==
    /\ first \/ es[1] # previousIsIntersecting
    /\ \A k \in 1..(Len(es) - 1) : es[k + 1] # es[k]
EntryLists == Seqs(BOOLEAN, 1, MaxEntries)

-----------------------------------------------------------------------------
(* The page: observer, fetchMentions, renderMentions *)

NoLocals == [likes |-> <<>>, mentionsList |-> <<>>, uniqueLikes |-> <<>>]

Init ==
    /\ source \in Sources
    /\ observing = TRUE
    /\ notified = FALSE
    /\ previousIsIntersecting = FALSE
    /\ calls = <<>>
    /\ container = <<>>
    /\ mentions = <<>>
    /\ locals = NoLocals
    /\ lastOutcome = "none"
    /\ uncaught = FALSE
    /\ startedAfterFailure = 0
    /\ fragment = <<>>
    /\ sanitized = <<>>

\* the statements of fetchMentions that are inside its try block
tryBlock == {"loading", "fetch", "ok", "json", "render"}

\* a catch block that only logs
CatchLogOnly(c) == c

\* catch (e) { container.innerHTML = "<p>Could not load interaction data.</p>"; ... }
CatchContainer(c) == CouldNotLoad

\* an exception raised at `stage` of activation i of fetchMentions
Thrown(i, stage) ==
    /\ calls' = [calls EXCEPT ![i] = "done"]
    /\ IF stage \in tryBlock
       THEN /\ container' = CatchContainer(container)
            /\ lastOutcome' = "failed"
            /\ UNCHANGED uncaught
       ELSE /\ uncaught' = TRUE
            /\ UNCHANGED <<container, lastOutcome>>

\* new IntersectionObserver((entries) => { entries.forEach((entry) => {
\*   if (entry.isIntersecting) { fetchMentions(); observer.disconnect(); } }) })
\* Each fetchMentions() runs to its first await: the loading placeholder is
\* written and the request is sent.
ObserverCallback(entries) ==
    /\ observing
    /\ Alternates(entries, ~notified)
    /\ LET n == Cardinality({k \in 1..Len(entries) : entries[k]})
       IN /\ calls' = calls \o [k \in 1..n |-> "awaitFetch"]
          /\ container' = IF n > 0 THEN Loading ELSE container
          /\ observing' = (n = 0)
          /\ startedAfterFailure' =
                IF lastOutcome = "failed" THEN startedAfterFailure + n
                ELSE startedAfterFailure
    /\ notified' = TRUE
    /\ previousIsIntersecting' = entries[Len(entries)]
    /\ UNCHANGED <<source, mentions, locals, lastOutcome, uncaught, fragment, sanitized>>

\* await fetch(...) rejects: a transport failure
FetchRejects(i) ==
    /\ calls[i] = "awaitFetch"
    /\ Thrown(i, "fetch")
    /\ UNCHANGED <<source, observing, notified, previousIsIntersecting, mentions,
                   locals, startedAfterFailure, fragment, sanitized>>

\* await fetch(...) resolves; if (!response.ok) throw new Error(...)
FetchResolves(i, ok) ==
    /\ calls[i] = "awaitFetch"
    /\ IF ok
       THEN /\ calls' = [calls EXCEPT ![i] = "awaitJson"]
            /\ UNCHANGED <<container, lastOutcome, uncaught>>
       ELSE Thrown(i, "ok")
    /\ UNCHANGED <<source, observing, notified, previousIsIntersecting, mentions,
                   locals, startedAfterFailure, fragment, sanitized>>

\* await response.json() rejects: the body is not JSON
JsonRejects(i) ==
    /\ calls[i] = "awaitJson"
    /\ Thrown(i, "json")
    /\ UNCHANGED <<source, observing, notified, previousIsIntersecting, mentions,
                   locals, startedAfterFailure, fragment, sanitized>>

\* const data = await response.json(); renderMentions(data.children || [])
JsonResolves(i, children) ==
    /\ calls[i] = "awaitJson"
    /\ LET ms == IF children = None THEN <<>> ELSE children[1]
           r == renderMentions(source, ms)
       IN /\ mentions' = ms
          /\ locals' = r.locals
          /\ IF r.threw
             THEN Thrown(i, "render")
             ELSE /\ calls' = [calls EXCEPT ![i] = "done"]
                  /\ container' = r.html
                  /\ lastOutcome' = "ok"
                  /\ UNCHANGED uncaught
    /\ UNCHANGED <<source, observing, notified, previousIsIntersecting,
                   startedAfterFailure, fragment, sanitized>>

Next ==
    \/ \E entries \in EntryLists : ObserverCallback(entries)
    \/ \E i \in 1..Len(calls) : FetchRejects(i)
    \/ \E i \in 1..Len(calls), ok \in BOOLEAN : FetchResolves(i, ok)
    \/ \E i \in 1..Len(calls) : JsonRejects(i)
    \/ \E i \in 1..Len(calls), children \in PageResponses : JsonResolves(i, children)

Spec == Init /\ [][Next]_vars

-----------------------------------------------------------------------------
(* renderMentions on the responses of RenderResponses and LikeResponses:    *)
(* the page from the moment its one request awaits response.json()         *)

InitAwaitingJson ==
    /\ source \in Sources
    /\ observing = FALSE
    /\ notified = TRUE
    /\ previousIsIntersecting = TRUE
    /\ calls = <<"awaitJson">>
    /\ container = Loading
    /\ mentions = <<>>
    /\ locals = NoLocals
    /\ lastOutcome = "none"
    /\ uncaught = FALSE
    /\ startedAfterFailure = 0
    /\ fragment = <<>>
    /\ sanitized = <<>>

NextRender == \E children \in RenderResponses : JsonResolves(1, children)
SpecRender == InitAwaitingJson /\ [][NextRender]_vars

NextLikes == \E children \in LikeResponses : JsonResolves(1, children)
SpecLikes == InitAwaitingJson /\ [][NextLikes]_vars

-----------------------------------------------------------------------------
(* sanitizeContent on the fragments of Fragments, and on its own result *)

InitSanitize ==
    /\ source \in Sources
    /\ observing = FALSE
    /\ notified = TRUE
    /\ previousIsIntersecting = TRUE
    /\ calls = <<"awaitJson">>
    /\ container = Loading
    /\ mentions = <<>>
    /\ locals = NoLocals
    /\ lastOutcome = "none"
    /\ uncaught = FALSE
    /\ startedAfterFailure = 0
    /\ fragment \in Fragments
    /\ sanitized = <<>>

Sanitize ==
    /\ sanitized = <<>>
    /\ sanitized' = <<sanitizeContent(fragment)>>
    /\ UNCHANGED <<source, observing, notified, previousIsIntersecting, calls,
                   container, mentions, locals, lastOutcome, uncaught,
                   startedAfterFailure, fragment>>

SanitizeAgain ==
    /\ Len(sanitized) = 1
    /\ sanitized' = Append(sanitized, sanitizeContent(sanitized[1]))
    /\ UNCHANGED <<source, observing, notified, previousIsIntersecting, calls,
                   container, mentions, locals, lastOutcome, uncaught,
                   startedAfterFailure, fragment>>

NextSanitize == Sanitize \/ SanitizeAgain
SpecSanitize == InitSanitize /\ [][NextSanitize]_vars

-----------------------------------------------------------------------------
(* Reading the state *)

Range(f) == {f[k] : k \in DOMAIN f}

LikeLi == "<li class=\"webmention-like-item "
MentionLi == "<li class=\"webmention-item "

\* the records the items of the markup are of, in the order of the markup
ItemsOf(html, li) ==
    LET at == SelectSeq([k \in 1..Len(html) |-> k], LAMBDA k : html[k].lit = li)
    IN [n \in 1..Len(at) |-> html[at[n] + 1].of]

Count(seq, v) == Cardinality({k \in 1..Len(seq) : seq[k] = v})

Rendered == calls = <<"done">> /\ lastOutcome = "ok"

KnownTags == {Some(likeOf), Some(repostOf), Some(inReplyTo), Some(mentionOf)}

\* text with no character that opens or closes markup or an attribute value,
\* and no ampersand but the one that begins a character reference
Entities == {amp, lt, gt, quot, apos}
Safe(text) ==
    \A k \in 1..Len(text) :
        /\ text[k] \notin {"<", ">", "\"", "'"}
        /\ text[k] = "&" =>
              \E e \in Entities :
                  /\ k + Len(e) - 1 <= Len(text)
                  /\ SubSeq(text, k, k + Len(e) - 1) = e

\* the value of record m a piece of the markup is taken from
RawOf(src, m) ==
    CASE src = "author.name" -> AuthorNameOf(m)
      [] src = "author.photo" -> AuthorPhotoOf(m)
      [] src = "author.url" -> AuthorUrlOf(m)
      [] src = "url" -> m.url
      [] src = "wm-property" -> m.wm_property

RawSources == {"author.name", "author.photo", "author.url", "url", "wm-property"}

-----------------------------------------------------------------------------
(* Claims *)

\* C1: the output of sanitizeContent, parsed as the page parses it, has no
\* script, style, iframe, object, embed, form, link or meta element and no
\* attribute named style or beginning with "on", at any depth, template
\* contents included.
C1_NoForbiddenInOutput ==
    Len(sanitized) >= 1 =>
        \A e \in Elements(Parse(sanitized[1])) :
            /\ e.name \notin Range(forbiddenTags)
            /\ \A k \in 1..Len(e.attrs) :
                  /\ ~startsWith(toLowerCase(e.attrs[k]), <<"o","n">>)
                  /\ toLowerCase(e.attrs[k]) # style

\* C8: sanitizeContent(sanitizeContent(f)) = sanitizeContent(f) for every
\* fragment f.
C8_Idempotent == Len(sanitized) = 2 => sanitized[2] = sanitized[1]

\* C5: fetchMentions is started at most once over any sequence of observer
\* callbacks, so at most one retrieval is ever outstanding.
C5_AtMostOneFetch == Len(calls) <= 1

C3_PartitionTotalDisjoint ==
    Rendered =>
        \A i \in 1..Len(mentions) :
            /\ Count(locals.likes, i) + Count(locals.mentionsList, i) = 1
            /\ Count(locals.likes, i) = 1
                  <=> mentions[i].wm_property \in {Some(likeOf), Some(repostOf)}
            /\ mentions[i].wm_property \notin KnownTags =>
                  /\ \E k \in 1..Len(container) :
                        container[k].src = "verb" /\ container[k].of = i
                  /\ \A k \in 1..Len(container) :
                        container[k].src = "verb" /\ container[k].of = i
                            => container[k].text = mentioned

C3_Witness ==
    /\ Rendered
    /\ \E i, j, k \in 1..Len(mentions) :
          /\ mentions[i].wm_property = Some(bookmarkOf)
          /\ mentions[j].wm_property = None
          /\ mentions[k].wm_property = Some(repostOf)

\* C4: every value of a record that the markup embeds (author name, photo
\* URL, author URL, source URL, category tag) is embedded as escapeHtml of
\* it, so that none of its characters is markup, and content is embedded as
\* the output of sanitizeContent.
C4_ValuesEscaped ==
    Rendered =>
        \A k \in 1..Len(container) :
            LET piece == container[k]
            IN /\ piece.src \in RawSources =>
                    /\ Safe(piece.text)
                    /\ RawOf(piece.src, mentions[piece.of]) # None =>
                          piece.text = escapeHtml(RawOf(piece.src, mentions[piece.of]))
               /\ piece.src = "content" =>
                    piece.html = sanitizeContent(ContentOf(mentions[piece.of])[1])

\* C6: a non-empty list whose records lack any subset of their fields is
\* rendered: no exception, no error placeholder, and exactly one item for
\* every record that is not a like with the key of an earlier like.
C6_AbsentFieldsNeverAbort ==
    calls = <<"done">> /\ mentions # <<>> =>
        /\ lastOutcome = "ok"
        /\ ~uncaught
        /\ container # CouldNotLoad
        /\ \A i \in 1..Len(mentions) :
              LET like == Bucket(mentions[i].wm_property) = "likes"
                  duplicate ==
                      like /\ \E j \in 1..(i - 1) :
                                 /\ Bucket(mentions[j].wm_property) = "likes"
                                 /\ DedupKey(mentions[j]) = DedupKey(mentions[i])
              IN Count(ItemsOf(container, IF like THEN LikeLi ELSE MentionLi), i)
                    = IF duplicate THEN 0 ELSE 1

C6_Witness ==
    /\ Rendered
    /\ Len(mentions) = 3
    /\ \E i \in 1..Len(mentions) : mentions[i] = Mention(None, None, None, None, None)
    /\ \E i \in 1..Len(mentions) :
          /\ mentions[i].author # None
          /\ mentions[i].author[1].name = None
          /\ mentions[i].content # None

\* C9: a published value that is present and does not parse as a timestamp
\* renders as the empty date field, as an absent one does.
C9_UnparseableDateEmpty ==
    Rendered =>
        \A k \in 1..Len(container) :
            LET piece == container[k]
            IN piece.src = "published"
               /\ Truthy(mentions[piece.of].published)
               /\ ~IsDateString(mentions[piece.of].published[1])
               => piece.text = <<>>

\* C2: uniqueLikes is a subsequence of likes in the order of the input, no
\* two of its records have the same key, each is the first like with its
\* key, every key of likes is kept, and the Likes grid shows them in that order.
C2_DedupFirstOccurrence ==
    Rendered /\ mentions # <<>> =>
        LET u == locals.uniqueLikes
            l == locals.likes
            key(i) == DedupKey(mentions[i])
        IN /\ \A k \in 1..Len(u) : u[k] \in Range(l)
           /\ \A k1, k2 \in 1..Len(u) : k1 < k2 => u[k1] < u[k2] /\ key(u[k1]) # key(u[k2])
           /\ \A k \in 1..Len(u) : \A j \in Range(l) : j < u[k] => key(j) # key(u[k])
           /\ \A j \in Range(l) : \E k \in 1..Len(u) : key(u[k]) = key(j)
           /\ ItemsOf(container, LikeLi) = u

C2_Witness ==
    /\ Rendered
    /\ Len(locals.likes) = 3
    /\ locals.uniqueLikes = <<1, 2>>
    /\ DedupKey(mentions[3]) = DedupKey(mentions[1])

\* the key as C10 states it: the first present (non-empty) value among
\* author URL, author unique id and author name, otherwise the serialized record
ClaimedKey(l) ==
    IF l.author # None /\ Truthy(l.author[1].url) THEN l.author[1].url[1]
    ELSE IF l.author # None /\ Truthy(l.author[1].uid) THEN l.author[1].uid[1]
    ELSE IF l.author # None /\ Truthy(l.author[1].name) THEN l.author[1].name[1]
    ELSE JSONstringify(l)

LacksAuthorFields(l) ==
    l.author = None
    \/ (~Truthy(l.author[1].url) /\ ~Truthy(l.author[1].uid) /\ ~Truthy(l.author[1].name))

RECURSIVE FirstNonEmpty(_, _)
FirstNonEmpty(values, otherwise) ==
    IF values = <<>> THEN otherwise
    ELSE IF Truthy(Head(values)) THEN Head(values)[1]
    ELSE FirstNonEmpty(Tail(values), otherwise)

\* the key as amended: the record's own url comes after the author's name
AmendedKey(l) ==
    FirstNonEmpty(
        (IF l.author = None THEN <<>>
         ELSE <<l.author[1].url, l.author[1].uid, l.author[1].name>>) \o <<l.url>>,
        JSONstringify(l))

====
